---- MODULE Spec2Model ----
(***************************************************************************)
(* The poll-diff-notify loop of the transaction notifier scripts           *)
(* (exchange_transactions.py, cashouts.py, users.py): monitor_transactions *)
(* with its helpers, the transaction table it polls, the table of public   *)
(* transactions it correlates against, and the chat API it posts to.       *)
(***************************************************************************)
EXTENDS Integers, Sequences, FiniteSets, TLC

\* ------------------------------------------------------------------ bounds
MaxId == 2          \* ids the store hands out: 1..MaxId
MaxCycles == 2      \* poll cycles explored
MaxChanges == 1     \* status updates made by the external system
MaxFailures == 1    \* chat API calls that raise SlackApiError
MaxPublic == 1      \* rows inserted into core.project_transactions

\* ------------------------------------------------------- program constants
None == 0               \* Python None (no id, no handle)
RecentLimit == 20       \* LIMIT 20 of get_project_transactions_data
RiskThreshold == 5      \* 0.5, in tenths

Variants == {"exchange", "withdrawal", "deposit"}
Statuses == {"in_progress", "success"}
NoStatus == "None"      \* previous_statuses.get(id) of an absent id

VARIABLES
    variant,            \* which script runs
    merchant_data,      \* the merchant_data table: merchant_id -> id_merchant
    projects,           \* the projects table: id -> name
    merchants,          \* the dict get_merchants_data returned at startup
    db,                 \* the polled table: id -> row
    public,             \* core.project_transactions, in id order
    pc,                 \* position of monitor_transactions
    last_processed_id,  \* the watermark
    message_ts_map,     \* dict id -> ts, in insertion order
    previous_statuses,  \* dict id -> status
    result,             \* rows fetched by the batch query
    idx,                \* position of the batch loop in result
    ridx,               \* position of the second loop in message_ts_map
    cycle,              \* number of the current poll cycle
    changes,            \* status updates made so far
    fails,              \* chat API failures so far
    log,                \* what the current cycle did, in order
    knownAtQuery,       \* keys of message_ts_map when the cycle began
    wmAtQuery,          \* last_processed_id when the cycle began
    startupIds,         \* ids in the table when the loop started
    lastShown,          \* id -> status in the latest message delivered for it
    seenStore,          \* id -> the store's status when the id was recorded
    call,               \* the transaction a renderer is called with
    text                \* the text the renderer built, as its pieces in order

vars == <<variant, merchant_data, projects, merchants, db, public, pc, last_processed_id, message_ts_map,
          previous_statuses, result, idx, ridx, cycle, changes, fails, log,
          knownAtQuery, wmAtQuery, startupIds, lastShown, seenStore, call, text>>

Ids == 1..MaxId

\* ------------------------------------------------------------ dict helpers
Put(f, k, v) == [x \in DOMAIN f \cup {k} |-> IF x = k THEN v ELSE f[x]]

Keys(m) == {m[i].id : i \in 1..Len(m)}

Has(m, id) == \E i \in 1..Len(m) : m[i].id = id

\* message_ts_map.get(id)
Get(m, id) ==
    IF Has(m, id) THEN m[CHOOSE i \in 1..Len(m) : m[i].id = id].ts ELSE None

\* message_ts_map[id] = ts
DictSet(m, id, ts) ==
    IF Has(m, id)
    THEN [i \in 1..Len(m) |-> IF m[i].id = id THEN [id |-> id, ts |-> ts] ELSE m[i]]
    ELSE Append(m, [id |-> id, ts |-> ts])

\* previous_statuses.get(id)
PrevGet(prev, id) == IF id \in DOMAIN prev THEN prev[id] ELSE NoStatus

MaxOf(S) == CHOOSE x \in S : \A y \in S : y <= x

\* rows of a set of ids, ORDER BY id DESC
RECURSIVE Descending(_, _)
Descending(rows, S) ==
    IF S = {} THEN <<>>
    ELSE LET m == MaxOf(S) IN <<rows[m]>> \o Descending(rows, S \ {m})

\* ------------------------------------------------------------- the queries
get_current_last_id_none(rows) == None

\* SELECT id ... ORDER BY id DESC LIMIT 1 / SELECT MAX(id)
get_current_last_id(rows) ==
    IF DOMAIN rows = {} THEN None ELSE MaxOf(DOMAIN rows)

SelectBatchAll(rows, wm) == Descending(rows, DOMAIN rows)

\* SELECT * FROM <table> [WHERE id > last_processed_id] ORDER BY id DESC
SelectBatch(rows, wm) ==
    IF wm # None
    THEN Descending(rows, {i \in DOMAIN rows : i > wm})
    ELSE Descending(rows, DOMAIN rows)

\* SELECT ... FROM core.project_transactions ORDER BY id DESC LIMIT 20
get_project_transactions_data(txs) ==
    LET n == Len(txs)
        k == IF n < RecentLimit THEN n ELSE RecentLimit
    IN  [i \in 1..k |-> txs[n + 1 - i]]

\* -------------------------------------------------------- the name lookups
\* the tables with the merchant and the project of every row in them
AllMerchants == (1 :> "Acme")
AllProjects == (1 :> "Shop")

\* {row['merchant_id']: row['id_merchant'] for row in result}
get_merchants_data(table) == table

MerchantNameNoDefault(ms, row) ==
    IF row.owner_merchant_id \in DOMAIN ms THEN ms[row.owner_merchant_id] ELSE "None"

\* merchants.get(row['owner_merchant_id'], 'Unknown')
MerchantName(ms, row) ==
    IF row.owner_merchant_id \in DOMAIN ms THEN ms[row.owner_merchant_id] ELSE "Unknown"

\* SELECT name FROM projects WHERE id = ...; project['name'] if project else 'Unknown'
ProjectName(ps, row) ==
    IF row.project_id \in DOMAIN ps THEN ps[row.project_id] ELSE "Unknown"

\* -------------------------------------------------------- the row filters
NeedsRealId(v) == v \in {"withdrawal", "deposit"}

Matches(tx, row) ==
    /\ tx.amount = row.amount
    /\ tx.owner_merchant_id = row.owner_merchant_id
    /\ tx.created_at = row.created_at

RealTransactionIdLoose(row, txs) ==
    IF \E i \in 1..Len(txs) : txs[i].owner_merchant_id = row.owner_merchant_id
    THEN txs[CHOOSE i \in 1..Len(txs) :
                /\ txs[i].owner_merchant_id = row.owner_merchant_id
                /\ \A j \in 1..(i - 1) :
                       txs[j].owner_merchant_id # row.owner_merchant_id].id
    ELSE None

\* the loop that looks for real_transaction_id: first match wins
RealTransactionId(row, txs) ==
    IF \E i \in 1..Len(txs) : Matches(txs[i], row)
    THEN txs[CHOOSE i \in 1..Len(txs) :
                /\ Matches(txs[i], row)
                /\ \A j \in 1..(i - 1) : ~Matches(txs[j], row)].id
    ELSE None

RiskFilteredStrict(v, row) ==
    v = "deposit" /\ (row.risk_null \/ row.risk_score < RiskThreshold)

\* deposit rows only: risk_score is None or risk_score <= 0.5
RiskFiltered(v, row) ==
    v = "deposit" /\ (row.risk_null \/ row.risk_score <= RiskThreshold)

\* ------------------------------------------------------------- the chat API
\* response['ts'] of a successful chat_postMessage: fresh for every post
NewTs(c, id) == c * (MaxId + 1) + id

CatchesNothing(fn) == FALSE

\* "except SlackApiError as e: print(...)" around chat_postMessage in fn
Catches(fn) == fn \in {"send_slack_message", "post_status_in_thread"}

\* what send_slack_message returns
SendResult(ok, c, id) == IF ok THEN NewTs(c, id) ELSE None

\* ----------------------------------------------------------- the renderers
\* statuses, networks and hashes the renderers are tried on
TextStatuses == {"in_progress", "success", "rejected", "pending", "cancelled", ""}
Networks == {"trx", "eth", "btc", "ETH"}
Hashes == {"0xabc", "0xdef"}
NoCall == [status |-> "", currency_network |-> "", hash_transaction |-> ""]

get_status_text_no_fallback(v, status) ==
    IF status = "in_progress" THEN <<":large_yellow_circle: Transaction in progress">>
    ELSE IF status = "success" THEN
        IF v = "withdrawal" THEN <<":large_green_circle: Transaction success", "\n">>
        ELSE <<":large_green_circle: Transaction success">>
    ELSE IF status = "rejected" THEN <<":red_circle: Transaction decline">>
    ELSE IF status = "pending" THEN
        <<":exclamation: Transaction awaiting provider approval ", "@operations">>
    ELSE <<"">>

\* get_status_text of script v; a text is the sequence of its pieces
get_status_text(v, status) ==
    IF status = "in_progress" THEN <<":large_yellow_circle: Transaction in progress">>
    ELSE IF status = "success" THEN
        IF v = "withdrawal" THEN <<":large_green_circle: Transaction success", "\n">>
        ELSE <<":large_green_circle: Transaction success">>
    ELSE IF status = "rejected" THEN <<":red_circle: Transaction decline">>
    ELSE IF status = "pending" THEN
        <<":exclamation: Transaction awaiting provider approval ", "@operations">>
    ELSE <<status>>

ThreadTextAnyStatus(v, transaction) ==
    get_status_text(v, transaction.status) \o
        (IF v = "withdrawal" /\ transaction.currency_network = "trx"
         THEN <<"\n", "https://tronscan.org/#/transaction/", transaction.hash_transaction>>
         ELSE IF v = "withdrawal" /\ transaction.currency_network = "eth"
         THEN <<"\n", "https://etherscan.io/tx/", transaction.hash_transaction>>
         ELSE <<>>)

\* status_text of post_status_in_thread of script v
ThreadText(v, transaction) ==
    get_status_text(v, transaction.status) \o
        (IF v = "withdrawal" /\ transaction.status = "success"
         THEN IF transaction.currency_network = "trx"
              THEN <<"\n", "https://tronscan.org/#/transaction/", transaction.hash_transaction>>
              ELSE IF transaction.currency_network = "eth"
              THEN <<"\n", "https://etherscan.io/tx/", transaction.hash_transaction>>
              ELSE <<>>
         ELSE <<>>)

\* ---------------------------------------------------- update_slack_message
UpdateNeedsPost(prev, row) ==
    /\ PrevGet(prev, row.id) # NoStatus
    /\ row.status # PrevGet(prev, row.id)

UpdatePrevFirstOnly(prev, row) ==
    IF PrevGet(prev, row.id) = NoStatus THEN Put(prev, row.id, row.status) ELSE prev

\* the assignments to previous_statuses in update_slack_message
UpdatePrev(prev, row) ==
    IF PrevGet(prev, row.id) = NoStatus THEN Put(prev, row.id, row.status)
    ELSE IF row.status # PrevGet(prev, row.id) THEN Put(prev, row.id, row.status)
    ELSE prev

\* ------------------------------------------------ the branch on a sent row
IsNewRowInverted(m, id) == Has(m, id)

IsNewRowAlways(m, id) == TRUE

\* row['id'] not in message_ts_map
IsNewRow(m, id) == ~Has(m, id)

\* last_processed_id = row['id']
AdvanceWatermark(wm, id) == id

Entry(op, pass, row, ts, ok) ==
    [op |-> op, pass |-> pass, id |-> row.id, ts |-> ts, status |-> row.status,
     ok |-> ok, known |-> Has(message_ts_map, row.id),
     merchant_name |-> MerchantName(merchants, row),
     project_name |-> ProjectName(projects, row),
     prev |-> PrevGet(previous_statuses, row.id),
     store |-> IF row.id \in DOMAIN db THEN db[row.id].status ELSE NoStatus]

Shown(shown, e) == IF e.ok THEN Put(shown, e.id, e.status) ELSE shown

\* -------------------------------------------------------------------- Init
Init ==
    /\ variant \in Variants
    /\ merchant_data = AllMerchants
    /\ projects = AllProjects
    /\ merchants = <<>>
    /\ db = <<>>
    /\ public = <<>>
    /\ pc = "start"
    /\ last_processed_id = None
    /\ message_ts_map = <<>>
    /\ previous_statuses = <<>>
    /\ result = <<>>
    /\ idx = 1
    /\ ridx = 1
    /\ cycle = 0
    /\ changes = 0
    /\ fails = 0
    /\ log = <<>>
    /\ knownAtQuery = {}
    /\ wmAtQuery = None
    /\ startupIds = {}
    /\ lastShown = <<>>
    /\ seenStore = <<>>
    /\ call = NoCall
    /\ text = <<>>

\* --------------------------------------------------------- the environment
\* nothing is explored once the last cycle has ended
Running == ~(pc = "query" /\ cycle = MaxCycles)

NewRow(id, s, rn, rs) ==
    [id |-> id, status |-> s, owner_merchant_id |-> 1, project_id |-> 1, amount |-> 10,
     created_at |-> id, risk_null |-> rn, risk_score |-> rs]

\* the external system inserts a row; the store assigns increasing ids
InsertRow ==
    /\ Running
    /\ Cardinality(DOMAIN db) < MaxId
    /\ \E s \in {"in_progress"}, rn \in BOOLEAN, rs \in {RiskThreshold, RiskThreshold + 4} :
         /\ variant # "deposit" => (rn /\ rs = RiskThreshold)
         /\ rn => rs = RiskThreshold
         /\ LET id == Cardinality(DOMAIN db) + 1
            IN  db' = Put(db, id, NewRow(id, s, rn, rs))
    /\ UNCHANGED <<call, text, merchant_data, projects, merchants, variant, public, pc, last_processed_id, message_ts_map,
                   previous_statuses, result, idx, ridx, cycle, changes, fails,
                   log, knownAtQuery, wmAtQuery, startupIds, lastShown, seenStore>>

\* the external system updates the status of a row
ChangeStatus ==
    /\ Running
    /\ changes < MaxChanges
    /\ \E id \in DOMAIN db, s \in Statuses :
         /\ s # db[id].status
         /\ db' = [db EXCEPT ![id].status = s]
    /\ changes' = changes + 1
    /\ UNCHANGED <<call, text, merchant_data, projects, merchants, variant, public, pc, last_processed_id, message_ts_map,
                   previous_statuses, result, idx, ridx, cycle, fails, log,
                   knownAtQuery, wmAtQuery, startupIds, lastShown, seenStore>>

\* a public transaction appears (only the withdrawal and deposit scripts read them)
PublishTx ==
    /\ Running
    /\ NeedsRealId(variant)
    /\ Len(public) < MaxPublic
    /\ \E c \in Ids, a \in {10} :
         public' = Append(public, [id |-> Len(public) + 1, owner_merchant_id |-> 1,
                                   amount |-> a, created_at |-> c])
    /\ UNCHANGED <<call, text, merchant_data, projects, merchants, variant, db, pc, last_processed_id, message_ts_map,
                   previous_statuses, result, idx, ridx, cycle, changes, fails,
                   log, knownAtQuery, wmAtQuery, startupIds, lastShown, seenStore>>

\* ---------------------------------------------------- monitor_transactions
\* the lines before the while loop
Startup ==
    /\ pc = "start"
    /\ merchants' = get_merchants_data(merchant_data)
    /\ last_processed_id' = get_current_last_id(db)
    /\ message_ts_map' = <<>>
    /\ startupIds' = DOMAIN db
    /\ pc' = "query"
    /\ UNCHANGED <<call, text, merchant_data, projects, variant, db, public, previous_statuses, result, idx, ridx,
                   cycle, changes, fails, log, knownAtQuery, wmAtQuery, lastShown, seenStore>>

\* the batch query at the top of a cycle
Query ==
    /\ pc = "query"
    /\ cycle < MaxCycles
    /\ result' = SelectBatch(db, last_processed_id)
    /\ idx' = 1
    /\ ridx' = 1
    /\ cycle' = cycle + 1
    /\ log' = <<>>
    /\ knownAtQuery' = Keys(message_ts_map)
    /\ wmAtQuery' = last_processed_id
    /\ pc' = "batch"
    /\ UNCHANGED <<call, text, merchant_data, projects, merchants, variant, db, public, last_processed_id, message_ts_map,
                   previous_statuses, changes, fails, startupIds, lastShown, seenStore>>

\* one iteration of "for row in result"
BatchRow ==
    /\ pc = "batch"
    /\ idx <= Len(result)
    /\ \E ok1 \in BOOLEAN, ok2 \in BOOLEAN :
         LET row == result[idx]
             filtered == RiskFiltered(variant, row)
             real == RealTransactionId(row, get_project_transactions_data(public))
             sends == ~filtered /\ (NeedsRealId(variant) => real # None)
             ts == SendResult(ok1, cycle, row.id)
             isNew == IsNewRow(message_ts_map, row.id)
             stored == Get(message_ts_map, row.id)
             raised1 == sends /\ ~ok1 /\ ~Catches("send_slack_message")
             updates == sends /\ ~raised1 /\ ~isNew /\ stored # None
             posts == updates /\ UpdateNeedsPost(previous_statuses, row)
             raised2 == posts /\ ~ok2 /\ ~Catches("post_status_in_thread")
             nfail == (IF sends /\ ~ok1 THEN 1 ELSE 0) + (IF posts /\ ~ok2 THEN 1 ELSE 0)
             e0 == Entry(IF filtered THEN "filtered" ELSE "skip", "batch", row, None, TRUE)
             e1 == Entry("send", "batch", row, ts, ok1)
             e2 == Entry("thread", "batch", row, stored, ok2)
         IN  /\ ~sends => ok1
             /\ ~posts => ok2
             /\ fails + nfail <= MaxFailures
             /\ fails' = fails + nfail
             /\ log' = IF ~sends THEN Append(log, e0)
                       ELSE IF posts THEN log \o <<e1, e2>>
                       ELSE Append(log, e1)
             /\ lastShown' = IF ~sends THEN lastShown
                             ELSE IF posts THEN Shown(Shown(lastShown, e1), e2)
                             ELSE Shown(lastShown, e1)
             /\ message_ts_map' = IF sends /\ ~raised1 /\ isNew
                                  THEN DictSet(message_ts_map, row.id, ts)
                                  ELSE message_ts_map
             /\ last_processed_id' = IF sends /\ ~raised1 /\ isNew
                                     THEN AdvanceWatermark(last_processed_id, row.id)
                                     ELSE last_processed_id
             /\ previous_statuses' = IF updates /\ ~raised2
                                     THEN UpdatePrev(previous_statuses, row)
                                     ELSE previous_statuses
             /\ seenStore' = IF sends /\ ~raised1 /\ isNew
                             THEN Put(seenStore, row.id, e1.store)
                             ELSE seenStore
             \* an exception that leaves the function ends monitor_transactions
             /\ pc' = IF raised1 \/ raised2 THEN "crashed" ELSE pc
             /\ idx' = IF raised1 \/ raised2 THEN idx ELSE idx + 1
    /\ UNCHANGED <<call, text, merchant_data, projects, merchants, variant, db, public, result, ridx, cycle, changes,
                   knownAtQuery, wmAtQuery, startupIds>>

\* the batch loop ends, the loop over message_ts_map.items() begins
BatchDone ==
    /\ pc = "batch"
    /\ idx > Len(result)
    /\ pc' = "reconcile"
    /\ ridx' = 1
    /\ UNCHANGED <<call, text, merchant_data, projects, merchants, variant, db, public, last_processed_id, message_ts_map,
                   previous_statuses, result, idx, cycle, changes, fails, log,
                   knownAtQuery, wmAtQuery, startupIds, lastShown, seenStore>>

\* one iteration of "for transaction_id, ts in message_ts_map.items()"
ReconcileRow ==
    /\ pc = "reconcile"
    /\ ridx <= Len(message_ts_map)
    /\ LET id == message_ts_map[ridx].id
           ts == message_ts_map[ridx].ts
       IN  IF id \in DOMAIN db
           THEN \E ok \in BOOLEAN :
                  LET row == db[id]
                      posts == UpdateNeedsPost(previous_statuses, row)
                      raised == posts /\ ~ok /\ ~Catches("post_status_in_thread")
                      e == Entry("thread", "reconcile", row, ts, ok)
                  IN  /\ ~posts => ok
                      /\ ~ok => fails < MaxFailures
                      /\ fails' = IF ok THEN fails ELSE fails + 1
                      /\ log' = IF posts THEN Append(log, e) ELSE log
                      /\ lastShown' = IF posts THEN Shown(lastShown, e) ELSE lastShown
                      /\ previous_statuses' = IF raised THEN previous_statuses
                                              ELSE UpdatePrev(previous_statuses, row)
                      /\ pc' = IF raised THEN "crashed" ELSE pc
                      /\ ridx' = IF raised THEN ridx ELSE ridx + 1
           ELSE /\ UNCHANGED <<fails, log, lastShown, previous_statuses, pc>>
                /\ ridx' = ridx + 1
    /\ UNCHANGED <<call, text, merchant_data, projects, merchants, variant, db, public, last_processed_id, message_ts_map,
                   result, idx, cycle, changes, knownAtQuery, wmAtQuery, startupIds,
                   seenStore>>

\* cursor.close(), conn.close(), time.sleep(5)
CycleEnd ==
    /\ pc = "reconcile"
    /\ ridx > Len(message_ts_map)
    /\ pc' = "query"
    /\ UNCHANGED <<call, text, merchant_data, projects, merchants, variant, db, public, last_processed_id, message_ts_map,
                   previous_statuses, result, idx, ridx, cycle, changes, fails,
                   log, knownAtQuery, wmAtQuery, startupIds, lastShown, seenStore>>

Next ==
    \/ InsertRow
    \/ ChangeStatus
    \/ PublishTx
    \/ Startup
    \/ Query
    \/ BatchRow
    \/ BatchDone
    \/ ReconcileRow
    \/ CycleEnd

Spec == Init /\ [][Next]_vars

\* ------------------------------- the loop with names that may be missing
InitNames ==
    /\ variant \in {"exchange", "withdrawal"}
    /\ merchant_data \in {<<>>, AllMerchants}
    /\ projects \in {<<>>, AllProjects}
    /\ merchants = <<>>
    /\ db = <<>>
    /\ public = <<>>
    /\ pc = "start"
    /\ last_processed_id = None
    /\ message_ts_map = <<>>
    /\ previous_statuses = <<>>
    /\ result = <<>>
    /\ idx = 1
    /\ ridx = 1
    /\ cycle = 0
    /\ changes = 0
    /\ fails = 0
    /\ log = <<>>
    /\ knownAtQuery = {}
    /\ wmAtQuery = None
    /\ startupIds = {}
    /\ lastShown = <<>>
    /\ seenStore = <<>>
    /\ call = NoCall
    /\ text = <<>>

SpecNames == InitNames /\ [][Next]_vars

\* ------------------------------------------- the renderers on their own
InitText ==
    /\ variant \in Variants
    /\ call \in [status : TextStatuses, currency_network : Networks,
                 hash_transaction : Hashes]
    /\ text = <<>>
    /\ pc = "render"
    /\ merchant_data = AllMerchants
    /\ projects = AllProjects
    /\ merchants = <<>>
    /\ db = <<>>
    /\ public = <<>>
    /\ last_processed_id = None
    /\ message_ts_map = <<>>
    /\ previous_statuses = <<>>
    /\ result = <<>>
    /\ idx = 1
    /\ ridx = 1
    /\ cycle = 0
    /\ changes = 0
    /\ fails = 0
    /\ log = <<>>
    /\ knownAtQuery = {}
    /\ wmAtQuery = None
    /\ startupIds = {}
    /\ lastShown = <<>>
    /\ seenStore = <<>>

loopVars == <<variant, merchant_data, projects, merchants, db, public, last_processed_id, message_ts_map,
              previous_statuses, result, idx, ridx, cycle, changes, fails, log,
              knownAtQuery, wmAtQuery, startupIds, lastShown, seenStore>>

\* get_status_text(transaction['status'])
RenderStatus ==
    /\ pc = "render"
    /\ text' = get_status_text(variant, call.status)
    /\ pc' = "status_text"
    /\ UNCHANGED <<call, loopVars>>

\* the text post_status_in_thread posts
RenderThread ==
    /\ pc = "render"
    /\ text' = ThreadText(variant, call)
    /\ pc' = "thread_text"
    /\ UNCHANGED <<call, loopVars>>

NextText ==
    \/ RenderStatus
    \/ RenderThread

SpecText == InitText /\ [][NextText]_vars

\* ------------------------------------------------------- claim vocabulary
\* rows of the current batch the first loop has finished with
Processed == IF pc = "batch" THEN idx - 1 ELSE Len(result)

\* positions of the cycle's log with this operation on this id
LogOf(op, id) == {i \in 1..Len(log) : log[i].op = op /\ log[i].id = id}

\* the first loop dropped the row before sending (risk filter, no real id)
Dropped(id) == LogOf("skip", id) # {} \/ LogOf("filtered", id) # {}

\* a poll cycle has just ended
CycleEnded == pc = "query" /\ cycle >= 1

\* watermark order, an unset watermark below every id
WmLeq(a, b) == a = None \/ (b # None /\ a <= b)

\* C1: every row of the batch that was not yet in message_ts_map when the
\* cycle began and passed the row filter has, once the first loop is done with
\* it, exactly one entry in message_ts_map and exactly one send_slack_message
\* call in this cycle, which delivered a message iff a handle was recorded.
C1_NewRowSentOnce ==
    \A i \in 1..Processed :
        LET T == result[i].id
        IN  (T \notin knownAtQuery /\ ~Dropped(T)) =>
              /\ Cardinality({j \in 1..Len(message_ts_map) : message_ts_map[j].id = T}) = 1
              /\ Cardinality(LogOf("send", T)) = 1
              /\ \A j \in LogOf("send", T) :
                     /\ log[j].ok <=> Get(message_ts_map, T) # None
                     /\ log[j].ts = Get(message_ts_map, T)

\* a finished batch pass that sent two new rows
C1_Witness ==
    /\ pc = "reconcile"
    /\ Len(result) >= 2
    /\ \A i \in 1..Len(result) :
          /\ result[i].id \notin knownAtQuery
          /\ LogOf("send", result[i].id) # {}
          /\ Get(message_ts_map, result[i].id) # None

\* C2: no chat call is made for an id that already has a handle in
\* message_ts_map while the status read for it equals previous_statuses[id]
\* and the store's status (stated for runs in which no chat call has failed).
C2_NoCallWhenUnchanged ==
    \A i \in 1..Len(log) :
        ~ /\ fails = 0
          /\ log[i].op \in {"send", "thread"}
          /\ log[i].known
          /\ Get(message_ts_map, log[i].id) # None
          /\ log[i].prev = log[i].status
          /\ log[i].store = log[i].status

\* C3: at the end of every cycle last_processed_id is not below its value at
\* the end of the cycle before (the value the cycle began with).
C3_WatermarkNeverDecreases ==
    CycleEnded => WmLeq(wmAtQuery, last_processed_id)

\* a second cycle has ended and moved a set watermark up
C3_Witness ==
    /\ CycleEnded
    /\ cycle >= 2
    /\ wmAtQuery # None
    /\ last_processed_id > wmAtQuery

\* C4: a new id whose initial send failed has no entry in message_ts_map.
C4_FailedSendStaysAbsent ==
    \A i \in 1..Len(log) :
        (log[i].op = "send" /\ ~log[i].ok /\ ~log[i].known) =>
            ~Has(message_ts_map, log[i].id)

\* C5: a reply for a change from in_progress to success of an id in
\* message_ts_map is posted once in the cycle, under the id's handle.
C5_OneSuccessReplyUnderHandle ==
    \A i \in 1..Len(log) :
        (log[i].op = "thread" /\ log[i].prev = "in_progress" /\ log[i].status = "success") =>
            /\ log[i].ts # None
            /\ log[i].ts = Get(message_ts_map, log[i].id)
            /\ Cardinality({j \in LogOf("thread", log[i].id) : log[j].status = "success"}) = 1

\* C6: at the end of every cycle last_processed_id is at least every id that
\* has an entry in message_ts_map (stated for runs in which no chat call has
\* failed).
C6_WatermarkIsHighestRecorded ==
    (CycleEnded /\ fails = 0) =>
        \A id \in Keys(message_ts_map) :
            last_processed_id # None /\ id <= last_processed_id

\* C7: the loop starts with the watermark at the table's maximum id (unset for
\* an empty table), and no row present at startup ever gets an initial message
\* or an entry in message_ts_map.
C7_HistoryNeverReplayed ==
    /\ (pc = "query" /\ cycle = 0) =>
          last_processed_id = (IF startupIds = {} THEN None ELSE MaxOf(startupIds))
    /\ (cycle = 1 /\ startupIds = {}) => wmAtQuery = None
    /\ Keys(message_ts_map) \cap startupIds = {}
    /\ \A i \in 1..Len(log) :
          log[i].op \in {"send", "thread"} => log[i].id \notin startupIds

\* rows were present at startup, a later row has been sent, the last cycle ended
C7_Witness ==
    /\ startupIds # {}
    /\ Keys(message_ts_map) # {}
    /\ pc = "query"
    /\ cycle = MaxCycles

\* C8: when a later cycle ends, every id recorded before it, at or below the
\* watermark, whose status in the store was the one of its latest message when
\* it was recorded and whose status as read by the second loop now differs
\* from it has a reply for the status read, under its handle.
C8_ReconcileRepliesToChange ==
    (CycleEnded /\ cycle >= 2) =>
        \A id \in knownAtQuery :
            ( /\ WmLeq(id, wmAtQuery)
              /\ id \in DOMAIN lastShown
              /\ id \in DOMAIN previous_statuses
              /\ seenStore[id] = lastShown[id]
              /\ previous_statuses[id] # lastShown[id] ) =>
                \E j \in LogOf("thread", id) :
                    /\ log[j].status = previous_statuses[id]
                    /\ log[j].ts # None
                    /\ log[j].ts = Get(message_ts_map, id)

\* no public transaction among the 20 most recent agrees with the row on
\* amount, owner merchant id and creation time
NoExactMatch(row) ==
    \A i \in 1..Len(public) :
        i > Len(public) - RecentLimit =>
            ~ /\ public[i].amount = row.amount
              /\ public[i].owner_merchant_id = row.owner_merchant_id
              /\ public[i].created_at = row.created_at

\* C9: in the withdrawal and deposit scripts an iteration of the first loop on
\* a row without a matching public transaction sends nothing, leaves
\* message_ts_map, previous_statuses and last_processed_id alone, and goes on
\* to the next row.
C9_UnmatchedRowSkipped ==
    [][ ( /\ pc = "batch"
          /\ idx <= Len(result)
          /\ idx' = idx + 1
          /\ NeedsRealId(variant)
          /\ NoExactMatch(result[idx]) ) =>
        ( /\ message_ts_map' = message_ts_map
          /\ last_processed_id' = last_processed_id
          /\ previous_statuses' = previous_statuses
          /\ lastShown' = lastShown
          /\ fails' = fails
          /\ Len(log') = Len(log) + 1
          /\ log'[Len(log')].op \in {"skip", "filtered"}
          /\ log'[Len(log')].id = result[idx].id
          /\ pc' = "batch" ) ]_vars

\* a row was skipped for want of a match and a later row of the batch was sent
C9_Witness ==
    \E i \in 1..Len(log), j \in 1..Len(log) :
        /\ i < j
        /\ log[i].op = "skip"
        /\ log[j].op = "send"

\* C10: previous_statuses[id] is the status in the latest message for id.
C10_PrevIsLastRendered ==
    \A id \in DOMAIN previous_statuses :
        id \in DOMAIN lastShown => previous_statuses[id] = lastShown[id]

\* position of an id in message_ts_map.items()
MapPos(id) == CHOOSE i \in 1..Len(message_ts_map) : message_ts_map[i].id = id

\* C11: a chat call that fails does not end the loop: monitor_transactions is
\* never left by the exception, a failed send yields no handle and nothing
\* else, and the loop that made the call has moved on past the row.
C11_ChatErrorNeverPropagates ==
    /\ pc # "crashed"
    /\ \A i \in 1..Len(log) :
          ~log[i].ok =>
              /\ log[i].op = "send" => log[i].ts = None
              /\ log[i].pass = "batch" =>
                    \E j \in 1..Processed : result[j].id = log[i].id
              /\ log[i].pass = "reconcile" =>
                    (pc = "query" \/ (pc = "reconcile" /\ ridx > MapPos(log[i].id)))

\* a chat call failed and the same cycle went on to make another call
C11_Witness ==
    \E i \in 1..Len(log), j \in 1..Len(log) :
        /\ i < j
        /\ ~log[i].ok
        /\ log[j].id # log[i].id

\* the text has this piece
HasPiece(t, piece) == \E i \in 1..Len(t) : t[i] = piece

ExplorerUrls == {"https://tronscan.org/#/transaction/", "https://etherscan.io/tx/"}

\* the last two pieces of the text are this url and this hash
EndsWithLink(t, url, hash) ==
    /\ Len(t) >= 3
    /\ t[Len(t) - 2] = "\n"
    /\ t[Len(t) - 1] = url
    /\ t[Len(t)] = hash

\* C12: in the withdrawal script the text of a status reply has a block
\* explorer url iff the status is success and currency_network is trx (the
\* tronscan url with the row's hash) or eth (the etherscan url with the row's
\* hash); otherwise it is exactly get_status_text(status).
C12_ExplorerLinkOnlyForSuccessTrxEth ==
    (pc = "thread_text" /\ variant = "withdrawal") =>
        LET linked == call.status = "success" /\ call.currency_network \in {"trx", "eth"}
        IN  /\ (\E u \in ExplorerUrls : HasPiece(text, u)) <=> linked
            /\ (call.status = "success" /\ call.currency_network = "trx") =>
                  /\ EndsWithLink(text, "https://tronscan.org/#/transaction/", call.hash_transaction)
                  /\ ~HasPiece(text, "https://etherscan.io/tx/")
            /\ (call.status = "success" /\ call.currency_network = "eth") =>
                  /\ EndsWithLink(text, "https://etherscan.io/tx/", call.hash_transaction)
                  /\ ~HasPiece(text, "https://tronscan.org/#/transaction/")
            /\ linked => SubSeq(text, 1, Len(text) - 3) = get_status_text(variant, call.status)
            /\ ~linked => text = get_status_text(variant, call.status)

\* the reply for a successful eth withdrawal has been rendered
C12_Witness ==
    /\ pc = "thread_text"
    /\ variant = "withdrawal"
    /\ call.status = "success"
    /\ call.currency_network = "eth"
    /\ HasPiece(text, "https://etherscan.io/tx/")
    /\ HasPiece(text, call.hash_transaction)

\* the lookup table of the specification
StatusTable(status) ==
    IF status = "in_progress" THEN <<":large_yellow_circle: Transaction in progress">>
    ELSE IF status = "success" THEN <<":large_green_circle: Transaction success">>
    ELSE IF status = "rejected" THEN <<":red_circle: Transaction decline">>
    ELSE IF status = "pending" THEN
        <<":exclamation: Transaction awaiting provider approval ", "@operations">>
    ELSE <<status>>

\* C13 as stated: get_status_text is the fixed table with the identity on
\* every other status, and the three scripts return the same text.
C13_StatusTextSameInAllVariants ==
    pc = "status_text" =>
        /\ text = StatusTable(call.status)
        /\ \A v \in Variants : get_status_text(v, call.status) = text

\* C13 as amended: get_status_text is the fixed table with the identity on
\* every other status; the scripts agree except that the success text of the
\* withdrawal script ends with a newline the other two do not have.
C13_StatusTextFixedLookup ==
    pc = "status_text" =>
        /\ text = IF variant = "withdrawal" /\ call.status = "success"
                  THEN StatusTable(call.status) \o <<"\n">>
                  ELSE StatusTable(call.status)
        /\ call.status = "success" => HasPiece(text, ":large_green_circle: Transaction success")
        /\ call.status = "pending" => HasPiece(text, "@operations")
        /\ call.status \notin {"in_progress", "success", "rejected", "pending"} =>
              text = <<call.status>>
        /\ \A v \in Variants :
              \/ get_status_text(v, call.status) = text
              \/ /\ call.status = "success"
                 /\ "withdrawal" \in {v, variant}
                 /\ v # variant

\* a status outside the table has been rendered
C13_Witness ==
    /\ pc = "status_text"
    /\ call.status = "cancelled"
    /\ text = <<"cancelled">>

\* C14: a row whose merchant is not in the merchant table, or whose project
\* is not in projects, is handled like any other: unless the row filter drops
\* it, its initial message is sent with 'Unknown' for the missing name, it is
\* recorded in message_ts_map, and monitor_transactions goes on.
C14_MissingNameRendersUnknown ==
    /\ pc # "crashed"
    /\ \A i \in 1..Processed :
          LET row == result[i]
          IN  (row.id \notin knownAtQuery /\ ~Dropped(row.id)) =>
                /\ Has(message_ts_map, row.id)
                /\ LogOf("send", row.id) # {}
                /\ \A j \in LogOf("send", row.id) :
                      /\ log[j].merchant_name =
                            IF row.owner_merchant_id \in DOMAIN merchant_data
                            THEN merchant_data[row.owner_merchant_id] ELSE "Unknown"
                      /\ log[j].project_name =
                            IF row.project_id \in DOMAIN projects
                            THEN projects[row.project_id] ELSE "Unknown"

\* a row with neither name known was sent, delivered and recorded
C14_Witness ==
    \E i \in 1..Len(log) :
        /\ log[i].op = "send"
        /\ log[i].ok
        /\ log[i].merchant_name = "Unknown"
        /\ log[i].project_name = "Unknown"
        /\ merchant_data = <<>>
        /\ Get(message_ts_map, log[i].id) = log[i].ts

\* C15: at the end of every cycle (stated for runs in which no chat call has
\* failed) every row that was not in the table at startup and passes the
\* deposit script's risk filter is in message_ts_map or above the watermark.
C15_NoRowPermanentlyMissed ==
    (CycleEnded /\ fails = 0) =>
        \A id \in DOMAIN db :
            (id \notin startupIds /\ ~RiskFiltered(variant, db[id])) =>
                \/ Has(message_ts_map, id)
                \/ last_processed_id = None
                \/ id > last_processed_id

\* C16: every post_status_in_thread call passes a ts that is not None and is
\* the handle recorded for the id.
C16_ReplyOnlyUnderRealHandle ==
    \A i \in 1..Len(log) :
        log[i].op = "thread" =>
            /\ log[i].ts # None
            /\ log[i].ts = Get(message_ts_map, log[i].id)

\* C17: no step removes an entry of message_ts_map or changes its handle, and
\* every reply of the cycle carries the handle recorded for its id.
C17_MapEntriesWriteOnce ==
    [][ /\ Len(message_ts_map') >= Len(message_ts_map)
        /\ \A i \in 1..Len(message_ts_map) : message_ts_map'[i] = message_ts_map[i]
        /\ \A i \in 1..Len(log') :
              log'[i].op = "thread" => log'[i].ts = Get(message_ts_map', log'[i].id)
      ]_vars

\* a later send for a recorded id returned another handle, which was dropped
C17_Witness ==
    \E i \in 1..Len(log) :
        /\ log[i].op = "send"
        /\ log[i].known
        /\ log[i].ok
        /\ Get(message_ts_map, log[i].id) # None
        /\ Get(message_ts_map, log[i].id) # log[i].ts

\* C18: a step that makes a reply that fails still stores the new status in
\* previous_statuses, and no reply is ever made for a status equal to the
\* stored one.
C18_FailedReplyNotRetried ==
    [][ /\ \A i \in (Len(log) + 1)..Len(log') :
              (log'[i].op = "thread" /\ ~log'[i].ok) =>
                  /\ log'[i].id \in DOMAIN previous_statuses'
                  /\ previous_statuses'[log'[i].id] = log'[i].status
        /\ \A i \in 1..Len(log') :
              log'[i].op = "thread" => log'[i].prev # log'[i].status
      ]_vars

\* a reply of the first loop failed; the second loop of the cycle has run and
\* made no other reply for the row: the stored status is the new one
C18_Witness ==
    \E i \in 1..Len(log) :
        /\ log[i].op = "thread"
        /\ log[i].pass = "batch"
        /\ ~log[i].ok
        /\ log[i].ts # None
        /\ Cardinality(LogOf("thread", log[i].id)) = 1
        /\ previous_statuses[log[i].id] = log[i].status
        /\ pc = "query"

\* risk_score is null or at most 0.5
LowRisk(row) == row.risk_null \/ ~(row.risk_score > RiskThreshold)

\* C19: in the deposit script an iteration of the first loop on a row whose
\* risk_score is null or at most 0.5 makes no chat call and leaves
\* message_ts_map, previous_statuses and last_processed_id alone; every
\* initial message and every map entry is for a row with risk_score above 0.5.
C19_LowRiskRowIgnored ==
    [][ variant = "deposit" =>
        /\ ( /\ pc = "batch"
             /\ idx <= Len(result)
             /\ idx' = idx + 1
             /\ LowRisk(result[idx]) ) =>
           ( /\ message_ts_map' = message_ts_map
             /\ previous_statuses' = previous_statuses
             /\ last_processed_id' = last_processed_id
             /\ lastShown' = lastShown
             /\ fails' = fails
             /\ log' = Append(log, log'[Len(log')])
             /\ log'[Len(log')].op = "filtered"
             /\ log'[Len(log')].id = result[idx].id )
        /\ \A i \in 1..Len(log') :
              log'[i].op \in {"send", "thread"} => ~LowRisk(db'[log'[i].id])
        /\ \A id \in Keys(message_ts_map') \cup DOMAIN previous_statuses' :
              ~LowRisk(db'[id])
      ]_vars

\* a row with risk_score 0.5 was passed over and a later row was sent
C19_Witness ==
    /\ variant = "deposit"
    /\ \E i \in 1..Len(log), j \in 1..Len(log) :
          /\ i < j
          /\ log[i].op = "filtered"
          /\ ~db[log[i].id].risk_null
          /\ db[log[i].id].risk_score = RiskThreshold
          /\ log[j].op = "send"

====
